---- MODULE Spec2Model ----
(***************************************************************************)
(* A model of the rate-limited request layer of src/app: the GitHub        *)
(* limiter of make_github_request, fetch_repo with its concurrent file     *)
(* fetches, the review-generation limiter and get_code_review, and the     *)
(* repository-URL parsing of get_repo_info.                                *)
(*                                                                         *)
(* Strings are sequences of symbols; text produced by f-strings and +=     *)
(* is the concatenation (\o) of those sequences.  Time is an integer       *)
(* number of seconds; time.time() reads the variable now.                  *)
(***************************************************************************)
EXTENDS Integers, Sequences, FiniteSets, TLC

VARIABLES
    now,               \* the clock read by time.time()
    ACCESS_TOKEN,      \* github_fetcher.ACCESS_TOKEN is set (TRUE) or not
    gh_REQUEST_TIMES,  \* github_fetcher.REQUEST_TIMES
    rate_limit_lock,   \* github_fetcher.rate_limit_lock: [locked, waiters]
    task,              \* the coroutines that call make_github_request
    gh_issued,         \* history: the admitted requests, in order of admission
    upstream,          \* what the GitHub API holds: the tree listing of the repository
    fr,                \* the fetch_repo invocation; fr.outcome is history: how
                       \* the contents request of each path ended; fr.first is
                       \* history: what the invocation before this one returned
    ai_REQUEST_TIMES,  \* openAI_reviewer.REQUEST_TIMES
    rv,                \* the get_code_review invocations; rv[c].history is
                       \* history: the generation calls of c and their results,
                       \* rv[c].reached and rv[c].full are history: when the
                       \* current call reached the limiter and whether the
                       \* window was full then
    running,           \* <<c>> while invocation c is inside a blocking call, which
                       \* keeps the event loop from running any other coroutine;
                       \* <<>> otherwise
    endpoint,          \* the POST /review request being served by main.app
    exchange,          \* one call of make_github_request under observation: its
                       \* URL, the response of the API and what the call gave back
    cache_keys         \* history: the requests request_key_builder was called
                       \* for and the keys it built, under one namespace

ghVars == <<gh_REQUEST_TIMES, rate_limit_lock, task, gh_issued>>
fetchVars == <<upstream, fr>>
aiVars == <<ai_REQUEST_TIMES, rv, running>>
envVars == <<ACCESS_TOKEN, endpoint, exchange, cache_keys>>
vars == <<now, envVars, ghVars, fetchVars, aiVars>>

----------------------------------------------------------------------------
(* Bounds of the model *)

\* the clock advances in steps of WINDOW \div TicksPerWindow seconds
TicksPerWindow == 2
\* the clock stops after MaxTicks steps
MaxTicks == 4
\* SpecLimiter: the coroutines 1..NumCallers call make_github_request
NumCallers == 3
\* SpecLimiter: the callers issue at most MaxCalls requests in all
MaxCalls == 3
\* Spec: the tree listing holds at most MaxFiles entries; coroutine 0 is
\* fetch_repo itself and 1..MaxFiles are its fetch_and_store coroutines
MaxFiles == 3
\* SpecRerun: the tree listing holds at most RerunFiles entries
RerunFiles == 2
\* SpecUrl: a repository URL has at most MaxSegments path segments
MaxSegments == 3
\* SpecBoth: the coroutines 1..BothCallers call make_github_request and the
\* get_code_review invocations 1..BothReviews run next to them
BothCallers == 2
BothReviews == 1
\* SpecBoth: the callers issue at most BothCalls requests in all, and the clock
\* advances BothTicks steps before it advances only for the sake of a sleeper;
\* the callers are interchangeable, and so are the invocations: the one with
\* the lowest number that is idle is the next to call
BothCalls == 3
BothTicks == 0
\* SpecReview: the get_code_review invocations 1..NumReviews
NumReviews == 2
\* openAI_reviewer.RATE_LIMIT, scaled down: the code sets 500, and the limiter
\* reads it only in the comparison len(REQUEST_TIMES) >= RATE_LIMIT
RATE_LIMIT == 2
\* SpecCache: request_key_builder is called for at most MaxKeyed requests
MaxKeyed == 2

----------------------------------------------------------------------------
(* Program constants *)

WINDOW == 60

TickSeconds == WINDOW \div TicksPerWindow
MaxTime == MaxTicks * TickSeconds

Max(a, b) == IF a >= b THEN a ELSE b
Tasks == 0..Max(NumCallers, MaxFiles)
None == "None"

\* the outcome of a call: the value it returns or the exception it raises
Ok(v) == [raised |-> None, value |-> v]
Raise(e) == [raised |-> e, value |-> None]

PER_HOUR_LIMIT == IF ACCESS_TOKEN THEN 5000 ELSE 60
\* a per-minute budget that rounds up instead of truncating
PerMinuteRoundedUp == (PER_HOUR_LIMIT + 59) \div 60
PER_MINUTE_LIMIT == PER_HOUR_LIMIT \div 60

----------------------------------------------------------------------------
(* The GitHub limiter: make_github_request, lines 47-68 *)

\* while REQUEST_TIMES and REQUEST_TIMES[0] <= current_time - 60: popleft()
RECURSIVE Evict(_, _)
\* an eviction loop that removes nothing
EvictNothing(times, current_time) == times

Evict(times, current_time) ==
    IF times # <<>> /\ times[1] <= current_time - WINDOW
    THEN Evict(Tail(times), current_time)
    ELSE times

\* a wait with the operands of the inner subtraction swapped
SleepTimeSwapped(times, current_time) == WINDOW - (times[1] - current_time)

\* sleep_time = 60 - (current_time - REQUEST_TIMES[0])
SleepTime(times, current_time) == WINDOW - (current_time - times[1])

\* a limiter without mutual exclusion: every caller enters at once
LockFreeAlways(lock) == TRUE

\* asyncio.Lock.acquire takes the lock at once only when it is not locked and
\* nobody waits for it; otherwise the caller joins the FIFO of waiters
LockFree(lock) == ~lock.locked /\ lock.waiters = <<>>

\* the world the limiter reads and writes
GhWorld ==
    [times |-> gh_REQUEST_TIMES, lock |-> rate_limit_lock,
     task |-> task, issued |-> gh_issued]

\* a locked section that is left without releasing the lock
ReleaseNever(w) == w

\* leaving "async with rate_limit_lock"
Release(w) == [w EXCEPT !.lock.locked = FALSE]

\* the timestamp is put at the front of the deque instead of its tail
AppendAndSendFront(w, t, times, current_time, slept) ==
    LET w1 == Release([w EXCEPT !.times = <<current_time>> \o times])
    IN  [w1 EXCEPT !.task[t].pc = "http",
                   !.issued = Append(@, [url |-> w.task[t].url,
                                         at |-> current_time, by |-> t,
                                         slept |-> slept])]

\* REQUEST_TIMES.append(current_time), the lock is released and the GET is sent
AppendAndSend(w, t, times, current_time, slept) ==
    LET w1 == Release([w EXCEPT !.times = Append(times, current_time)])
    IN  [w1 EXCEPT !.task[t].pc = "http",
                   !.issued = Append(@, [url |-> w.task[t].url,
                                         at |-> current_time, by |-> t,
                                         slept |-> slept])]

\* an admission check that lets the request through without recording it
AdmissionCheckUnrecorded(w, t, current_time) ==
    LET times == Evict(w.times, current_time)
    IN  IF Len(times) >= PER_MINUTE_LIMIT
        THEN [w EXCEPT !.times = times,
                       !.task[t].pc = "sleeping",
                       !.task[t].wake = current_time + SleepTime(times, current_time)]
        ELSE [Release([w EXCEPT !.times = times]) EXCEPT
                  !.task[t].pc = "http",
                  !.issued = Append(@, [url |-> w.task[t].url,
                                        at |-> current_time, by |-> t,
                                        slept |-> FALSE])]

\* the body of "async with rate_limit_lock" up to its first suspension, run by
\* task t which holds the lock
AdmissionCheck(w, t, current_time) ==
    LET times == Evict(w.times, current_time)
    IN  IF Len(times) >= PER_MINUTE_LIMIT
        THEN [w EXCEPT !.times = times,
                       !.task[t].pc = "sleeping",
                       !.task[t].wake = current_time + SleepTime(times, current_time)]
        ELSE AppendAndSend(w, t, times, current_time, FALSE)

\* make_github_request(url) called by task t, up to its first suspension
MakeGithubRequest(w, t, url, current_time) ==
    LET w1 == [w EXCEPT !.task[t].url = url]
    IN  IF LockFree(w1.lock)
        THEN AdmissionCheck([w1 EXCEPT !.lock.locked = TRUE], t, current_time)
        ELSE [w1 EXCEPT !.lock.waiters = Append(@, t),
                        !.task[t].pc = "lockwait"]

\* a wake-up that appends without the clean-up of lines 64-65
AfterSleepNoEvict(w, t, current_time) ==
    AppendAndSend(w, t, w.times, current_time, TRUE)

\* the code after "await asyncio.sleep(sleep_time)": lines 61-68
AfterSleep(w, t, current_time) ==
    AppendAndSend(w, t, Evict(w.times, current_time), current_time, TRUE)

SetGhWorld(w) ==
    /\ gh_REQUEST_TIMES' = w.times
    /\ rate_limit_lock' = w.lock
    /\ task' = w.task
    /\ gh_issued' = w.issued

IdleTask == [pc |-> "idle", url |-> None, wake |-> 0]

\* the event loop runs a coroutine step only while no coroutine is inside a
\* blocking call
LoopFree == running = <<>>

----------------------------------------------------------------------------
(* openAI_reviewer.py: rate_limited_openai_chat_completion, get_code_review *)

Reviews == 1..NumReviews

\* the arguments of invocation c
CodeOf(c) == <<"merged code ", ToString(c)>>
Assignment == <<"write a hello world program">>
ReviewedLevel == <<"Junior">>

\* the text the API generates in answer to a list of messages
GeneratedText(messages) == <<"answer to ">> \o messages[Len(messages)].content
\* what openai.chat.completions.create(messages) does: it returns a
\* completion or raises
CreateResults(messages) == {Ok(GeneratedText(messages)), Raise("APIError")}

Message(role, content) == [role |-> role, content |-> content]

\* the system message of a pass: persona, level, assignment, the task
SystemPrompt(pass, assignment, reviewed_level) ==
    <<"You are an expert ... written by a ">> \o reviewed_level
        \o <<" programmer ... Their assignment was: ">> \o assignment
        \o <<" ", CASE pass = 1 -> "find downsides and write comments"
                    [] pass = 2 -> "rate on a scale from 0 to 100"
                    [] OTHER -> "draw conclusions; this message is final">>

\* the messages of the first call, lines 86-97
DownsidesMessages(code, assignment, reviewed_level) ==
    << Message("system", SystemPrompt(1, assignment, reviewed_level)),
       Message("user", code) >>

\* the messages of the second call, lines 112-125
RatingMessages(code, assignment, reviewed_level, downsides_comments) ==
    << Message("system", SystemPrompt(2, assignment, reviewed_level)),
       Message("user", code),
       Message("assistant", downsides_comments) >>

\* the third call with the two assistant messages swapped
ConclusionMessagesSwapped(code, assignment, reviewed_level, downsides_comments, rating) ==
    << Message("system", SystemPrompt(3, assignment, reviewed_level)),
       Message("user", code),
       Message("assistant", rating),
       Message("assistant", downsides_comments) >>

\* the messages of the third call, lines 140-154
ConclusionMessages(code, assignment, reviewed_level, downsides_comments, rating) ==
    << Message("system", SystemPrompt(3, assignment, reviewed_level)),
       Message("user", code),
       Message("assistant", downsides_comments),
       Message("assistant", rating) >>

\* an invocation before its call; review is <<>> until a Review is returned,
\* then the sequence of that one Review
IdleReview(c) ==
    [pc |-> "idle", pass |-> 0, wake |-> 0, messages |-> <<>>, history |-> <<>>,
     reached |-> 0, full |-> FALSE,
     downsides_comments |-> <<>>, rating |-> <<>>, error |-> None, review |-> <<>>]

\* a review limiter that reads the deque of github_fetcher
AiWorldShared ==
    [times |-> gh_REQUEST_TIMES, rv |-> rv, running |-> running]

\* the world the review limiter reads and writes
AiWorld ==
    [times |-> ai_REQUEST_TIMES, rv |-> rv, running |-> running]

SetAiWorld(w) ==
    /\ ai_REQUEST_TIMES' = w.times
    /\ rv' = w.rv
    /\ running' = w.running

\* the generation calls admitted so far, over all invocations
AdmittedCalls(reviews) ==
    {ci \in Reviews \X (1..6) :
        /\ ci[2] <= Len(reviews[ci[1]].history)
        /\ reviews[ci[1]].history[ci[2]].ev = "call"}

\* the timestamps of the window that are younger than 60 seconds
Young(times, current_time) ==
    {i \in 1..Len(times) : times[i] > current_time - WINDOW}

\* create is entered without a timestamp being recorded
AiCallWithoutAppend(w, c, times, current_time, slept) ==
    [w EXCEPT !.times = times,
              !.rv[c].pc = "calling",
              !.running = <<c>>,
              !.rv[c].history =
                  Append(@, [ev |-> "call", pass |-> w.rv[c].pass,
                             messages |-> w.rv[c].messages, result |-> None,
                             slept |-> slept,
                             seq |-> Cardinality(AdmittedCalls(w.rv)) + 1,
                             reached |-> w.rv[c].reached,
                             full |-> w.rv[c].full,
                             at |-> current_time])]

\* REQUEST_TIMES.append(current_time), then openai.chat.completions.create is
\* entered: a blocking call, which holds the event loop until it is over
AiAppendAndCall(w, c, times, current_time, slept) ==
    [w EXCEPT !.times = Append(times, current_time),
              !.rv[c].pc = "calling",
              !.running = <<c>>,
              !.rv[c].history =
                  Append(@, [ev |-> "call", pass |-> w.rv[c].pass,
                             messages |-> w.rv[c].messages, result |-> None,
                             slept |-> slept,
                             seq |-> Cardinality(AdmittedCalls(w.rv)) + 1,
                             reached |-> w.rv[c].reached,
                             full |-> w.rv[c].full,
                             at |-> current_time])]

\* rate_limited_openai_chat_completion(model, messages), lines 34-56, up to the
\* sleep or into the blocking call
RateLimitedCall(w, c, pass, messages, current_time) ==
    LET w1 == [w EXCEPT !.rv[c].pass = pass, !.rv[c].messages = messages,
                        !.rv[c].reached = current_time,
                        !.rv[c].full =
                            Cardinality(Young(w.times, current_time)) >= RATE_LIMIT]
        times == Evict(w.times, current_time)
    IN  IF Len(times) >= RATE_LIMIT
        THEN [w1 EXCEPT !.times = times,
                        !.rv[c].pc = "sleeping",
                        !.rv[c].wake = current_time + SleepTime(times, current_time),
                        !.running = <<>>]
        ELSE AiAppendAndCall(w1, c, times, current_time, FALSE)

\* the code after "await asyncio.sleep(sleep_time)": lines 45-56
AiAfterSleep(w, c, current_time) ==
    AiAppendAndCall(w, c, Evict(w.times, current_time), current_time, TRUE)

\* an except clause that swallows the error and goes on with its text
SwallowError(result) ==
    IF result.raised # None THEN Ok(<<result.raised>>) ELSE result

\* "except Exception as e: ... raise": the error of create leaves
\* rate_limited_openai_chat_completion and get_code_review unchanged
Reraise(result) ==
    result

\* a Review built with the first two texts in each other's field
ReviewMisplaced(downsides_comments, rating, conclusion) ==
    [downsides_comments |-> rating, rating |-> downsides_comments,
     conclusion |-> conclusion]

\* Review(downsides_comments=..., rating=..., conclusion=...), lines 165-169
Review(downsides_comments, rating, conclusion) ==
    [downsides_comments |-> downsides_comments, rating |-> rating,
     conclusion |-> conclusion]

\* get_code_review is called
ReviewStart(c) ==
    /\ LoopFree
    /\ rv[c].pc = "idle"
    /\ SetAiWorld(RateLimitedCall(
           AiWorld, c, 1, DownsidesMessages(CodeOf(c), Assignment, ReviewedLevel), now))
    /\ UNCHANGED <<now, envVars, ghVars, fetchVars>>

\* asyncio.sleep(sleep_time) is over for invocation c
AiWake(c) ==
    /\ LoopFree
    /\ rv[c].pc = "sleeping"
    /\ now >= rv[c].wake
    /\ SetAiWorld(AiAfterSleep(AiWorld, c, now))
    /\ UNCHANGED <<now, envVars, ghVars, fetchVars>>

\* create returns or raises, and get_code_review runs on to its next call,
\* its return or its failure
CreateReturns(c) ==
    /\ rv[c].pc = "calling"
    /\ running = <<c>>
    /\ \E result \in CreateResults(rv[c].messages) :
       LET completion == Reraise(result)
           pass == rv[c].pass
           w == [AiWorld EXCEPT
                    !.running = <<>>,
                    !.rv[c].history =
                        Append(@, [ev |-> "return", pass |-> pass,
                                   messages |-> <<>>, result |-> result,
                                   slept |-> FALSE])]
       IN  IF completion.raised # None
           THEN SetAiWorld([w EXCEPT !.rv[c].pc = "raised",
                                     !.rv[c].error = completion.raised])
           ELSE CASE pass = 1 ->
                    LET downsides_comments == completion.value
                    IN  SetAiWorld(RateLimitedCall(
                            [w EXCEPT !.rv[c].downsides_comments = downsides_comments],
                            c, 2,
                            RatingMessages(CodeOf(c), Assignment, ReviewedLevel,
                                           downsides_comments),
                            now))
                  [] pass = 2 ->
                    LET rating == completion.value
                    IN  SetAiWorld(RateLimitedCall(
                            [w EXCEPT !.rv[c].rating = rating],
                            c, 3,
                            ConclusionMessages(CodeOf(c), Assignment, ReviewedLevel,
                                               rv[c].downsides_comments, rating),
                            now))
                  [] OTHER ->
                    SetAiWorld([w EXCEPT
                        !.rv[c].pc = "returned",
                        !.rv[c].review =
                            << Review(rv[c].downsides_comments, rv[c].rating,
                                      completion.value) >>])
    /\ UNCHANGED <<now, envVars, ghVars, fetchVars>>

----------------------------------------------------------------------------
(* Steps of the event loop shared by every specification *)

\* the clock advances
Tick ==
    /\ now + TickSeconds <= MaxTime
    /\ now' = now + TickSeconds
    /\ UNCHANGED <<envVars, ghVars, fetchVars, aiVars>>

\* the first waiter of the released lock resumes inside the locked section
LockGrant ==
    /\ LoopFree
    /\ ~rate_limit_lock.locked
    /\ rate_limit_lock.waiters # <<>>
    /\ LET t == Head(rate_limit_lock.waiters)
           w == [GhWorld EXCEPT !.lock = [locked |-> TRUE,
                                          waiters |-> Tail(rate_limit_lock.waiters)]]
       IN  SetGhWorld(AdmissionCheck(w, t, now))
    /\ UNCHANGED <<now, envVars, fetchVars, aiVars>>

\* asyncio.sleep(sleep_time) is over for task t
Wake(t) ==
    /\ LoopFree
    /\ task[t].pc = "sleeping"
    /\ now >= task[t].wake
    /\ SetGhWorld(AfterSleep(GhWorld, t, now))
    /\ UNCHANGED <<now, envVars, fetchVars, aiVars>>

----------------------------------------------------------------------------
(* SpecLimiter: free callers of make_github_request *)

Callers == 1..NumCallers

Call(t) ==
    /\ LoopFree
    /\ task[t].pc = "idle"
    /\ Len(gh_issued) + Cardinality({u \in Callers : task[u].pc # "idle"}) < MaxCalls
    /\ SetGhWorld(MakeGithubRequest(GhWorld, t, <<"free">>, now))
    /\ UNCHANGED <<now, envVars, fetchVars, aiVars>>

\* the response arrives: the caller returns the body or raises
Respond(t) ==
    /\ LoopFree
    /\ task[t].pc = "http"
    /\ task' = [task EXCEPT ![t] = IdleTask]
    /\ UNCHANGED <<now, envVars, gh_REQUEST_TIMES, rate_limit_lock, gh_issued,
                   fetchVars, aiVars>>

InitModules ==
    /\ now = 0
    /\ ACCESS_TOKEN \in BOOLEAN
    /\ gh_REQUEST_TIMES = <<>>
    /\ rate_limit_lock = [locked |-> FALSE, waiters |-> <<>>]
    /\ task = [t \in Tasks |-> IdleTask]
    /\ gh_issued = <<>>
    /\ ai_REQUEST_TIMES = <<>>
    /\ rv = [c \in Reviews |-> IdleReview(c)]
    /\ running = <<>>

\* no request is being served
NoRequest == [pc |-> "unused"]
\* no call of make_github_request is under observation
NoExchange == [pc |-> "unused"]
\* no key has been built
NoKeys == [namespace |-> <<>>, built |-> <<>>]

InitCommon ==
    /\ InitModules
    /\ endpoint = NoRequest
    /\ exchange = NoExchange
    /\ cache_keys = NoKeys

InitLimiter ==
    /\ InitCommon
    /\ upstream = [tree |-> <<>>]
    /\ fr = [pc |-> "unused"]

NextLimiter ==
    \/ Tick
    \/ LockGrant
    \/ \E t \in Tasks : Wake(t)
    \/ \E t \in Callers : Call(t)
    \/ \E t \in Callers : Respond(t)

SpecLimiter == InitLimiter /\ [][NextLimiter]_vars

----------------------------------------------------------------------------
(* Strings: sequences of symbols *)

RECURSIVE Concat(_)
Concat(seqs) == IF seqs = <<>> THEN <<>> ELSE Head(seqs) \o Concat(Tail(seqs))

\* the index of the last occurrence of symbol c in s, 0 when there is none
RECURSIVE LastIndexOf(_, _)
LastIndexOf(s, c) ==
    IF s = <<>> THEN 0
    ELSE IF s[Len(s)] = c THEN Len(s)
    ELSE LastIndexOf(SubSeq(s, 1, Len(s) - 1), c)

----------------------------------------------------------------------------
(* utils.py *)

\* mimetypes.guess_type(file_path)[0]: the MIME type the extension after the
\* last dot maps to, None when there is no (known) extension
guess_type(file_path) ==
    LET dot == LastIndexOf(file_path, ".")
        ext == IF dot = 0 THEN <<>> ELSE SubSeq(file_path, dot + 1, Len(file_path))
    IN  CASE ext = <<"txt">> -> <<"text", "/", "plain">>
          [] ext = <<"py">> -> <<"text", "/", "x-python">>
          [] ext = <<"png">> -> <<"image", "/", "png">>
          [] OTHER -> None

\* return mime_type and mime_type.startswith('text')
is_text_file(file_path) ==
    LET mime_type == guess_type(file_path)
    IN  mime_type # None /\ mime_type[1] = "text"

\* a dict is the sequence of its items in insertion order; d[key] = value
\* keeps the position of a key that is already present
DictSet(d, key, value) ==
    IF \E i \in 1..Len(d) : d[i].key = key
    THEN [i \in 1..Len(d) |-> IF d[i].key = key
                               THEN [key |-> key, value |-> value] ELSE d[i]]
    ELSE Append(d, [key |-> key, value |-> value])

\* a merge that leaves out the delimiter lines
RECURSIVE merge_without_delimiter(_)
merge_without_delimiter(files) ==
    IF files = <<>> THEN <<>>
    ELSE merge_without_delimiter(SubSeq(files, 1, Len(files) - 1))
             \o (files[Len(files)].value \o <<"\n">>)

\* merge_file_contents(files)
RECURSIVE merge_file_contents(_)
merge_file_contents(files) ==
    IF files = <<>> THEN <<>>
    ELSE LET file_path == files[Len(files)].key
             content == files[Len(files)].value
         IN  merge_file_contents(SubSeq(files, 1, Len(files) - 1))
                 \o (<<"\n", "--- ">> \o file_path \o <<" ---", "\n">>)
                 \o (content \o <<"\n">>)

----------------------------------------------------------------------------
(* What the GitHub API answers *)

\* the entries a tree listing is made of
TreeEntries ==
    { [path |-> <<"a", ".", "txt">>, type |-> "blob"],
      [path |-> <<"b", ".", "png">>, type |-> "blob"],
      [path |-> <<"d">>, type |-> "tree"],
      [path |-> <<"d", "/", "c", ".", "py">>, type |-> "blob"] }

AllPaths == {e.path : e \in TreeEntries}

\* the listings: sequences of at most MaxFiles entries, no path twice
RECURSIVE Listings(_)
Listings(n) ==
    IF n = 0 THEN {<<>>}
    ELSE LET shorter == Listings(n - 1)
         IN  shorter \cup
             { Append(l, e) : l \in {x \in shorter : Len(x) = n - 1},
                              e \in TreeEntries }

NoPathTwice(l) == \A i, j \in 1..Len(l) : l[i].path = l[j].path => i = j

\* the metadata of the repository
RepoInfo ==
    [owner |-> [login |-> <<"octo">>], name |-> <<"hello">>,
     default_branch |-> <<"dev">>]

\* the text of the file at a path
ContentOf(path) ==
    CASE path = <<"a", ".", "txt">> -> <<"alpha">>
      [] path = <<"d", "/", "c", ".", "py">> -> <<"import", " ", "c">>
      [] OTHER -> <<"?">>

\* how a contents request ends: with the file's text, UTF-8 and base64
\* encoded, with a body that is no base64, with bytes that are no UTF-8, or
\* with a status other than 200
FileOutcomes == {"ok", "bad_base64", "bad_utf8", "status"}

Utf8Encode(text) == [utf8 |-> TRUE, text |-> text]
B64Encode(bytes) == [b64 |-> TRUE, bytes |-> bytes]

FileResponseBody(path, outcome) ==
    CASE outcome = "ok" -> [status |-> 200, content |-> B64Encode(Utf8Encode(ContentOf(path)))]
      [] outcome = "bad_base64" -> [status |-> 200, content |-> [b64 |-> FALSE]]
      [] outcome = "bad_utf8" -> [status |-> 200, content |-> B64Encode([utf8 |-> FALSE])]
      [] OTHER -> [status |-> 404, content |-> None]

----------------------------------------------------------------------------
(* github_fetcher.py: get_repo_info, get_repo_tree, fetch_file *)

\* base64.b64decode(file_data['content']).decode('utf-8')
b64decode(s) == IF s.b64 THEN Ok(s.bytes) ELSE Raise("binascii.Error")
decode_utf8(bytes) == IF bytes.utf8 THEN Ok(bytes.text) ELSE Raise("UnicodeDecodeError")

\* make_github_request, lines 72-78: the body for status 200, else an Exception
ResponseResult(response) ==
    IF response.status = 200 THEN Ok(response) ELSE Raise("Exception")

ApiRoot == <<"https://api.github.com/repos/">>
RepoApiUrl(owner, repo_name) == ApiRoot \o owner \o <<"/">> \o repo_name
TreeApiUrl(owner, repo_name, branch) ==
    ApiRoot \o owner \o <<"/">> \o repo_name \o <<"/git/trees/">> \o branch
        \o <<"?recursive=1">>
FileApiUrl(owner, repo_name, file_path) ==
    ApiRoot \o owner \o <<"/">> \o repo_name \o <<"/contents/">> \o file_path

\* str.replace(old, ""): every occurrence of old is removed, left to right
RECURSIVE Remove(_, _)
Remove(s, old) ==
    IF Len(s) < Len(old) THEN s
    ELSE IF SubSeq(s, 1, Len(old)) = old
         THEN Remove(SubSeq(s, Len(old) + 1, Len(s)), old)
         ELSE <<s[1]>> \o Remove(Tail(s), old)

\* str.rstrip('/')
RECURSIVE rstrip(_)
rstrip(s) ==
    IF s # <<>> /\ s[Len(s)] = "/" THEN rstrip(SubSeq(s, 1, Len(s) - 1)) ELSE s

\* str.split('/'): the pieces between the slashes, at least one piece
RECURSIVE split(_)
split(s) ==
    LET i == LastIndexOf(s, "/")
    IN  IF i = 0 THEN <<s>>
        ELSE Append(split(SubSeq(s, 1, i - 1)), SubSeq(s, i + 1, Len(s)))

\* pieces[-2:]
LastTwo(pieces) == SubSeq(pieces, Max(1, Len(pieces) - 1), Len(pieces))

GithubPrefix == <<"https:", "/", "/", "github.com", "/">>

\* get_repo_info, lines 95-103: the API URL, or ValueError
RepoInfoUrl(repo_url) ==
    LET location == Remove(repo_url, GithubPrefix)
        pieces == LastTwo(split(rstrip(location)))
    IN  IF Len(pieces) # 2 THEN Raise("ValueError")
        ELSE Ok(RepoApiUrl(pieces[1], pieces[2]))

\* fetch_and_store without its try/except
CaughtNothing(e) == FALSE

\* "except Exception" of fetch_and_store catches what derives from Exception
ExceptionClasses == {"Exception", "ValueError", "binascii.Error", "UnicodeDecodeError"}
CaughtByFetchAndStore(e) ==
    e \in ExceptionClasses

\* fetch_and_store after fetch_file returned or raised: the text to store
FileText(response) ==
    LET file_data == ResponseResult(response)
    IN  IF file_data.raised # None THEN file_data
        ELSE LET bytes == b64decode(file_data.value.content)
             IN  IF bytes.raised # None THEN bytes ELSE decode_utf8(bytes.value)

\* the paths of every entry, directories included
AllEntryPaths(tree) == [i \in 1..Len(tree) |-> tree[i].path]

\* file_paths = [item['path'] for item in repo_tree['tree'] if item['type'] == 'blob']
RECURSIVE BlobPaths(_)
BlobPaths(tree) ==
    IF tree = <<>> THEN <<>>
    ELSE (IF Head(tree).type = "blob" THEN <<Head(tree).path>> ELSE <<>>)
             \o BlobPaths(Tail(tree))

\* every blob is fetched, binary or not
AllFilePaths(file_paths) == file_paths

\* textfile_paths = [item for item in file_paths if utils.is_text_file(item)]
TextFilePaths(file_paths) == SelectSeq(file_paths, is_text_file)

----------------------------------------------------------------------------
(* fetch_repo: one invocation; coroutine 0 runs fetch_repo, coroutine i runs *)
(* fetch_and_store(textfile_paths[i])                                        *)

Main == 0
FileTasks == 1..Len(fr.textfile_paths)

\* asyncio.gather starts the coroutines in list order; each runs up to its
\* first suspension inside make_github_request
RECURSIVE StartFileTasks(_, _, _, _)
StartFileTasks(w, i, f, current_time) ==
    IF i > Len(f.textfile_paths) THEN w
    ELSE StartFileTasks(
             MakeGithubRequest(w, i, FileApiUrl(f.owner, f.repo_name, f.textfile_paths[i]),
                               current_time),
             i + 1, f, current_time)

\* fetch_repo is called: get_repo_info parses the URL and asks for the metadata
FetchRepoStart ==
    /\ LoopFree
    /\ fr.pc = "start"
    /\ LET api_url == RepoInfoUrl(fr.repo_url)
       IN  IF api_url.raised # None
           THEN /\ fr' = [fr EXCEPT !.pc = "raised", !.error = api_url.raised,
                                    !.stage = "url"]
                /\ UNCHANGED ghVars
           ELSE /\ fr' = [fr EXCEPT !.pc = "meta"]
                /\ SetGhWorld(MakeGithubRequest(GhWorld, Main, api_url.value, now))
    /\ UNCHANGED <<now, envVars, upstream, aiVars>>

\* a fetch_repo that asks for the metadata again when the request failed
MetaResponseRetry(status) ==
    /\ LoopFree
    /\ fr.pc = "meta"
    /\ task[Main].pc = "http"
    /\ LET repo_info == ResponseResult([status |-> status, body |-> RepoInfo])
           w == [GhWorld EXCEPT !.task[Main] = IdleTask]
       IN  IF repo_info.raised # None
           THEN /\ fr' = fr
                /\ SetGhWorld(MakeGithubRequest(w, Main, task[Main].url, now))
           ELSE LET owner == repo_info.value.body.owner.login
                    repo_name == repo_info.value.body.name
                    default_branch == repo_info.value.body.default_branch
                IN  /\ fr' = [fr EXCEPT !.pc = "tree", !.owner = owner,
                                        !.repo_name = repo_name,
                                        !.default_branch = default_branch]
                    /\ SetGhWorld(MakeGithubRequest(
                           w, Main, TreeApiUrl(owner, repo_name, default_branch), now))
    /\ UNCHANGED <<now, envVars, upstream, aiVars>>

\* the metadata response arrives; on success get_repo_tree asks for the tree
MetaResponse(status) ==
    /\ LoopFree
    /\ fr.pc = "meta"
    /\ task[Main].pc = "http"
    /\ LET repo_info == ResponseResult([status |-> status, body |-> RepoInfo])
           w == [GhWorld EXCEPT !.task[Main] = IdleTask]
       IN  IF repo_info.raised # None
           THEN /\ fr' = [fr EXCEPT !.pc = "raised", !.error = repo_info.raised,
                                    !.stage = "meta"]
                /\ SetGhWorld(w)
           ELSE LET owner == repo_info.value.body.owner.login
                    repo_name == repo_info.value.body.name
                    default_branch == repo_info.value.body.default_branch
                IN  /\ fr' = [fr EXCEPT !.pc = "tree", !.owner = owner,
                                        !.repo_name = repo_name,
                                        !.default_branch = default_branch]
                    /\ SetGhWorld(MakeGithubRequest(
                           w, Main, TreeApiUrl(owner, repo_name, default_branch), now))
    /\ UNCHANGED <<now, envVars, upstream, aiVars>>

\* the tree response arrives; on success the file coroutines are started
TreeResponse(status) ==
    /\ LoopFree
    /\ fr.pc = "tree"
    /\ task[Main].pc = "http"
    /\ LET repo_tree == ResponseResult([status |-> status, tree |-> upstream.tree])
           w == [GhWorld EXCEPT !.task[Main] = IdleTask]
       IN  IF repo_tree.raised # None
           THEN /\ fr' = [fr EXCEPT !.pc = "raised", !.error = repo_tree.raised,
                                    !.stage = "tree"]
                /\ SetGhWorld(w)
           ELSE LET file_paths == BlobPaths(repo_tree.value.tree)
                    f == [fr EXCEPT !.pc = "gather", !.file_paths = file_paths,
                                    !.textfile_paths = TextFilePaths(file_paths)]
                IN  /\ fr' = f
                    /\ SetGhWorld(StartFileTasks(w, 1, f, now))
    /\ UNCHANGED <<now, envVars, upstream, aiVars>>

\* the response to the contents request of coroutine t arrives: the text is
\* decoded and stored, or the exception is logged
FileResponse(t, outcome) ==
    /\ LoopFree
    /\ fr.pc = "gather"
    /\ t \in FileTasks
    /\ task[t].pc = "http"
    /\ LET file_path == fr.textfile_paths[t]
           file_text == FileText(FileResponseBody(file_path, outcome))
       IN  IF file_text.raised = None
           THEN fr' = [fr EXCEPT !.files = DictSet(@, file_path, file_text.value),
                                 !.outcome[file_path] = outcome]
           ELSE IF CaughtByFetchAndStore(file_text.raised)
           THEN fr' = [fr EXCEPT !.outcome[file_path] = outcome]
           ELSE fr' = [fr EXCEPT !.outcome[file_path] = outcome, !.pc = "raised",
                                 !.error = file_text.raised, !.stage = "files"]
    /\ task' = [task EXCEPT ![t].pc = "done"]
    /\ UNCHANGED <<now, envVars, gh_REQUEST_TIMES, rate_limit_lock, gh_issued,
                   upstream, aiVars>>

\* a gather that returns as soon as one of its coroutines has finished
GatherDoneEarly ==
    /\ LoopFree
    /\ fr.pc = "gather"
    /\ \E t \in FileTasks : task[t].pc = "done"
    /\ fr' = [fr EXCEPT !.pc = "returned",
                        !.repository =
                            [owner |-> fr.owner, repo_name |-> fr.repo_name,
                             file_paths |-> fr.file_paths,
                             merged_code |-> merge_file_contents(fr.files)]]
    /\ UNCHANGED <<now, envVars, ghVars, upstream, aiVars>>

\* gather is over: the contents are merged and the Repository is returned
GatherDone ==
    /\ LoopFree
    /\ fr.pc = "gather"
    /\ \A t \in FileTasks : task[t].pc = "done"
    /\ fr' = [fr EXCEPT !.pc = "returned",
                        !.repository =
                            [owner |-> fr.owner, repo_name |-> fr.repo_name,
                             file_paths |-> fr.file_paths,
                             merged_code |-> merge_file_contents(fr.files)]]
    /\ UNCHANGED <<now, envVars, ghVars, upstream, aiVars>>

----------------------------------------------------------------------------
(* SpecUrl: get_repo_info on every URL of a bounded shape *)

Schemes == {"https:", "http:"}
Hosts == {"github.com", "www.github.com"}
\* a path segment: empty, or one name
Segments == {<<>>, <<"owner">>, <<"repo">>, <<"tree">>}

\* scheme://host, then "/" and a segment for each segment, then the trailing
\* slashes
UrlOf(scheme, host, segs, slashes) ==
    <<scheme, "/", "/", host>>
        \o Concat([i \in 1..Len(segs) |-> <<"/">> \o segs[i]])
        \o [i \in 1..slashes |-> "/"]

RepoUrls ==
    { UrlOf(scheme, host, segs, slashes) :
        scheme \in Schemes, host \in Hosts,
        segs \in UNION {[1..n -> Segments] : n \in 0..MaxSegments},
        slashes \in 0..1 }

NewFetchRepo(repo_url) ==
    [pc |-> "start", repo_url |-> repo_url, error |-> None, stage |-> None,
     owner |-> None, repo_name |-> None, default_branch |-> None,
     file_paths |-> <<>>, textfile_paths |-> <<>>, files |-> <<>>,
     outcome |-> [p \in AllPaths |-> None], repository |-> None, first |-> <<>>]

InitUrl ==
    /\ InitCommon
    /\ upstream = [tree |-> <<>>]
    /\ fr \in {NewFetchRepo(u) : u \in RepoUrls}

NextUrl == FetchRepoStart

SpecUrl == InitUrl /\ [][NextUrl]_vars

\* the URLs fetch_repo is called with in Spec
GoodUrl == <<"https:", "/", "/", "github.com", "/", "owner", "/", "repo">>
BadUrl == <<"https:", "/", "/", "github.com", "/", "owner">>

Init ==
    /\ InitCommon
    /\ upstream \in {[tree |-> l] : l \in {x \in Listings(MaxFiles) : NoPathTwice(x)}}
    /\ fr \in {NewFetchRepo(u) : u \in {GoodUrl, BadUrl}}

Next ==
    \/ Tick
    \/ LockGrant
    \/ \E t \in Tasks : Wake(t)
    \/ FetchRepoStart
    \/ \E status \in {200, 404} : MetaResponse(status)
    \/ \E status \in {200, 404} : TreeResponse(status)
    \/ \E t \in Tasks, outcome \in FileOutcomes : FileResponse(t, outcome)
    \/ GatherDone

Spec == Init /\ [][Next]_vars

----------------------------------------------------------------------------
(* SpecRerun: fetch_repo is called again with the same URL once it returned, *)
(* against the same upstream                                                 *)

\* the second call of fetch_repo(repo_url): its coroutines and its files dict
\* are new, the limiter's REQUEST_TIMES and lock are the module's
Rerun ==
    /\ LoopFree
    /\ fr.pc = "returned"
    /\ fr.first = <<>>
    /\ fr' = [NewFetchRepo(fr.repo_url) EXCEPT
                 !.first = << [outcome |-> fr.outcome,
                               merged_code |-> fr.repository.merged_code] >>]
    /\ task' = [t \in Tasks |-> IdleTask]
    /\ UNCHANGED <<now, envVars, gh_REQUEST_TIMES, rate_limit_lock, gh_issued,
                   upstream, aiVars>>

InitRerun ==
    /\ InitCommon
    /\ upstream \in {[tree |-> l] : l \in {x \in Listings(RerunFiles) : NoPathTwice(x)}}
    /\ fr = NewFetchRepo(GoodUrl)

NextRerun ==
    \/ Next
    \/ Rerun

SpecRerun == InitRerun /\ [][NextRerun]_vars

----------------------------------------------------------------------------
(* SpecReview: concurrent get_code_review invocations *)

InitReview ==
    /\ InitCommon
    /\ ~ACCESS_TOKEN
    /\ upstream = [tree |-> <<>>]
    /\ fr = [pc |-> "unused"]

NextReview ==
    \/ Tick
    \/ \E c \in Reviews : ReviewStart(c)
    \/ \E c \in Reviews : AiWake(c)
    \/ \E c \in Reviews : CreateReturns(c)

SpecReview == InitReview /\ [][NextReview]_vars

----------------------------------------------------------------------------
(* SpecBoth: callers of make_github_request and get_code_review invocations *)
(* on one event loop, with a clock that goes on while a coroutine sleeps    *)

\* the clock advances; it never stops while an asyncio.sleep is pending
TickOn ==
    /\ \/ now + TickSeconds <= BothTicks * TickSeconds
       \/ \E t \in Tasks : task[t].pc = "sleeping" /\ task[t].wake > now
       \/ \E c \in Reviews : rv[c].pc = "sleeping" /\ rv[c].wake > now
    /\ now' = now + TickSeconds
    /\ UNCHANGED <<envVars, ghVars, fetchVars, aiVars>>

NextBoth ==
    \/ TickOn
    \/ LockGrant
    \/ \E t \in Tasks : Wake(t)
    \/ \E t \in 1..BothCallers :
           /\ Len(gh_issued) + Cardinality({u \in Callers : task[u].pc # "idle"}) < BothCalls
           /\ \A u \in 1..(t - 1) : task[u].pc # "idle"
           /\ Call(t)
    \/ \E t \in 1..BothCallers : Respond(t)
    \/ \E c \in 1..BothReviews :
           /\ \A d \in 1..(c - 1) : rv[d].pc # "idle"
           /\ ReviewStart(c)
    \/ \E c \in Reviews : AiWake(c)
    \/ \E c \in Reviews : CreateReturns(c)

\* the event loop runs a callback that is ready, a timer that is due fires,
\* a blocking call and an HTTP exchange end, and time passes; that a call is
\* made at all is up to the callers
FairBoth ==
    /\ WF_vars(TickOn)
    /\ WF_vars(LockGrant)
    /\ WF_vars(\E t \in Tasks : Wake(t))
    /\ WF_vars(\E t \in 1..BothCallers : Respond(t))
    /\ WF_vars(\E c \in Reviews : AiWake(c))
    /\ WF_vars(\E c \in Reviews : CreateReturns(c))

SpecBoth == InitLimiter /\ [][NextBoth]_vars /\ FairBoth

----------------------------------------------------------------------------
(* main.py: CandidateLevel, DefaultModel, code_review *)

\* the letters of the level names and of the method names; a level string is a
\* sequence of characters
UpperCase == <<"J", "U", "N", "I", "O", "R", "M", "D", "L", "E", "S", "P", "T">>
LowerCase == <<"j", "u", "n", "i", "o", "r", "m", "d", "l", "e", "s", "p", "t">>

\* a lower() that leaves the string as it is
lower_unchanged(value) == value

\* str.lower()
lower(value) ==
    [i \in 1..Len(value) |->
        IF \E k \in 1..Len(UpperCase) : UpperCase[k] = value[i]
        THEN LowerCase[CHOOSE k \in 1..Len(UpperCase) : UpperCase[k] = value[i]]
        ELSE value[i]]

\* class CandidateLevel(str, Enum): the members in definition order
CandidateLevelMembers ==
    << [name |-> "junior", value |-> <<"J", "u", "n", "i", "o", "r">>],
       [name |-> "middle", value |-> <<"M", "i", "d", "d", "l", "e">>],
       [name |-> "Senior", value |-> <<"S", "e", "n", "i", "o", "r">>] >>

\* the first of the members at the given positions, None when there is none
FirstMember(matching) ==
    IF matching # {}
    THEN CandidateLevelMembers[CHOOSE i \in matching : \A j \in matching : i <= j].name
    ELSE None

\* CandidateLevel._missing_(value)
_missing_(value) ==
    LET lowered == lower(value)
    IN  FirstMember({i \in 1..Len(CandidateLevelMembers) :
                        lower(CandidateLevelMembers[i].value) = lowered})

\* CandidateLevel(value): the member with that value, else _missing_(value)
CandidateLevel(value) ==
    LET by_value == FirstMember({i \in 1..Len(CandidateLevelMembers) :
                                    CandidateLevelMembers[i].value = value})
    IN  IF by_value # None THEN by_value ELSE _missing_(value)

\* HttpUrl: a scheme of http or https, "//", and a host
HttpUrl(url) ==
    IF /\ Len(url) >= 4
       /\ url[1] \in {"http:", "https:"}
       /\ url[2] = "/" /\ url[3] = "/"
       /\ url[4] \notin {"/", ""}
    THEN Ok([scheme |-> url[1], host |-> url[4], path |-> SubSeq(url, 5, Len(url))])
    ELSE Raise("ValidationError")

\* str(HttpUrl): a URL without a path gets the path "/"
UrlStr(value) ==
    <<value.scheme, "/", "/", value.host>>
        \o (IF value.path = <<>> THEN <<"/">> ELSE value.path)

\* raise HTTPException(status_code, detail): the outcome carries the two
HTTPException(status_code, detail) ==
    [raised |-> "HTTPException",
     value |-> [status_code |-> status_code, detail |-> detail]]

\* DefaultModel.validate_github_repo_url(value)
validate_github_repo_url(value) ==
    IF value.host # "github.com"
    THEN HTTPException(400, <<"The provided URL must be a GitHub repository URL.">>)
    ELSE Ok(value)

\* DefaultModel(**body): the fields are validated in the order of their
\* definition; an HTTPException of a validator leaves the validation at once,
\* the validation errors of the fields are collected
DefaultModel(body) ==
    LET url == HttpUrl(body.github_repo_url)
        checked == IF url.raised # None THEN url ELSE validate_github_repo_url(url.value)
        level == CandidateLevel(body.candidate_level)
    IN  IF checked.raised = "HTTPException"
        THEN checked
        ELSE IF checked.raised # None \/ level = None
        THEN Raise("RequestValidationError")
        ELSE Ok([assignment_description |-> body.assignment_description,
                 github_repo_url |-> checked.value,
                 candidate_level |-> level])

\* calling an async def function runs none of its body: it returns a
\* coroutine object
CoroutineObject(function, args) == [coroutine |-> function, args |-> args]

\* object.attribute: a coroutine object has none of the attributes of the
\* value its function would return
GetAttr(object, attribute) ==
    IF "coroutine" \in DOMAIN object
    THEN Raise("AttributeError")
    ELSE Ok(object[attribute])

\* what the application answers when the validation or the handler raised:
\* 422 for a validation error, the status and detail of an HTTPException, and
\* the plain text "Internal Server Error" with status 500 for any other
\* exception, for which main.py registers no handler
ErrorResponse(outcome) ==
    CASE outcome.raised = "RequestValidationError" ->
             [status |-> 422, detail |-> <<"validation errors">>, body |-> <<>>]
      [] outcome.raised = "HTTPException" ->
             [status |-> outcome.value.status_code, detail |-> outcome.value.detail,
              body |-> <<>>]
      [] OTHER ->
             [status |-> 500, detail |-> <<>>, body |-> <<"Internal Server Error">>]

\* the body of code_review(params), lines 104-112: nothing is awaited
CodeReviewBody(params) ==
    LET repo == CoroutineObject("fetch_repo", <<UrlStr(params.github_repo_url)>>)
        merged_code == GetAttr(repo, "merged_code")
    IN  IF merged_code.raised # None THEN merged_code
        ELSE LET review == CoroutineObject("get_code_review",
                                <<merged_code.value, params.assignment_description,
                                  params.candidate_level>>)
                 file_paths == GetAttr(repo, "file_paths")
                 downsides_comments == GetAttr(review, "downsides_comments")
                 rating == GetAttr(review, "rating")
                 conclusion == GetAttr(review, "conclusion")
             IN  CASE file_paths.raised # None -> file_paths
                   [] downsides_comments.raised # None -> downsides_comments
                   [] rating.raised # None -> rating
                   [] conclusion.raised # None -> conclusion
                   [] OTHER ->
                       Ok([found_files |-> file_paths.value,
                           downsides_comments |-> downsides_comments.value,
                           rating |-> rating.value,
                           conclusion |-> conclusion.value])

\* POST /review arrives: the body is validated against DefaultModel
ValidateRequest ==
    /\ endpoint.pc = "received"
    /\ LET params == DefaultModel(endpoint.body)
       IN  IF params.raised # None
           THEN endpoint' = [endpoint EXCEPT !.pc = "responded",
                                            !.response = ErrorResponse(params)]
           ELSE endpoint' = [endpoint EXCEPT !.pc = "handler", !.params = params.value]
    /\ UNCHANGED <<now, ACCESS_TOKEN, exchange, cache_keys, ghVars, fetchVars, aiVars>>

\* code_review(params) runs and the response is sent
code_review ==
    /\ LoopFree
    /\ endpoint.pc = "handler"
    /\ LET result == CodeReviewBody(endpoint.params)
       IN  IF result.raised # None
           THEN endpoint' = [endpoint EXCEPT !.pc = "responded",
                                            !.response = ErrorResponse(result)]
           ELSE endpoint' = [endpoint EXCEPT
                                !.pc = "responded",
                                !.response = [status |-> 200, detail |-> <<>>,
                                              body |-> result.value]]
    /\ UNCHANGED <<now, ACCESS_TOKEN, exchange, cache_keys, ghVars, fetchVars, aiVars>>

----------------------------------------------------------------------------
(* SpecEndpoint: one POST /review request *)

\* a letter in upper case and in lower case
BothCases(letter) ==
    UNION { {UpperCase[k], LowerCase[k]} :
              k \in {j \in 1..Len(UpperCase) : letter \in {UpperCase[j], LowerCase[j]}} }

\* every way of writing a word in upper and lower case letters
RECURSIVE CaseVariants(_)
CaseVariants(word) ==
    IF word = <<>> THEN {<<>>}
    ELSE {<<letter>> \o rest : letter \in BothCases(Head(word)),
                               rest \in CaseVariants(Tail(word))}

\* the level strings that are sent: the names in every case, and strings that
\* are no level
OtherLevels ==
    { <<>>, <<"L", "e", "a", "d">>, <<"J", "u", "n", "i", "o">>,
      <<"J", "u", "n", "i", "o", "r", "s">>, <<"J", "u", "n", "i", "o", "r", " ">>,
      <<"S", "e", "n", "i", "o", "r", "M", "i", "d", "d", "l", "e">> }
LevelStrings ==
    UNION {CaseVariants(CandidateLevelMembers[i].value) :
               i \in 1..Len(CandidateLevelMembers)} \cup OtherLevels

NotAUrl == <<"invalid", "/", "/", "url">>

\* the request bodies: every URL with the level Junior, and every level string
\* with a well-formed repository URL
RequestBodies ==
    { [assignment_description |-> Assignment, github_repo_url |-> u,
       candidate_level |-> <<"J", "u", "n", "i", "o", "r">>] :
          u \in RepoUrls \cup {NotAUrl} }
    \cup
    { [assignment_description |-> Assignment, github_repo_url |-> GoodUrl,
       candidate_level |-> l] : l \in LevelStrings }

NewRequest(body) ==
    [pc |-> "received", body |-> body, params |-> <<>>, response |-> <<>>]

InitEndpoint ==
    /\ InitModules
    /\ upstream \in {[tree |-> l, meta_status |-> status] :
                         l \in {<<>>}, status \in {200, 404}}
    /\ fr = [pc |-> "unused"]
    /\ endpoint \in {NewRequest(body) : body \in RequestBodies}
    /\ exchange = NoExchange
    /\ cache_keys = NoKeys

NextEndpoint ==
    \/ ValidateRequest
    \/ code_review

SpecEndpoint == InitEndpoint /\ [][NextEndpoint]_vars

----------------------------------------------------------------------------
(* SpecResponse: one call of make_github_request and the response it gets *)

\* a make_github_request that returns the body for every 2xx status
HandleResponseAny2xx(url, response) ==
    IF response.status \in 200..299
    THEN Ok(response.json)
    ELSE [raised |-> "Exception",
          value |-> <<"Failed to retrieve data from ">> \o url
                        \o <<": ", ToString(response.status), " ">> \o response.text]

\* make_github_request, lines 73-78: the parsed body for status 200, else
\* Exception(f"Failed to retrieve data from {url}: {response.status} {text}")
HandleResponse(url, response) ==
    IF response.status = 200
    THEN Ok(response.json)
    ELSE [raised |-> "Exception",
          value |-> <<"Failed to retrieve data from ">> \o url
                        \o <<": ", ToString(response.status), " ">> \o response.text]

\* the caller of the observed call
Requester == 1

\* make_github_request(url) is called
RequestCall ==
    /\ LoopFree
    /\ exchange.pc = "start"
    /\ task[Requester].pc = "idle"
    /\ SetGhWorld(MakeGithubRequest(GhWorld, Requester, exchange.url, now))
    /\ exchange' = [exchange EXCEPT !.pc = "called"]
    /\ UNCHANGED <<now, ACCESS_TOKEN, endpoint, cache_keys, fetchVars, aiVars>>

\* the response arrives: make_github_request returns or raises
RequestReturns ==
    /\ LoopFree
    /\ exchange.pc = "called"
    /\ task[Requester].pc = "http"
    /\ task' = [task EXCEPT ![Requester] = IdleTask]
    /\ exchange' = [exchange EXCEPT
                       !.pc = "done",
                       !.result = HandleResponse(exchange.url, exchange.response)]
    /\ UNCHANGED <<now, ACCESS_TOKEN, endpoint, cache_keys, gh_REQUEST_TIMES, rate_limit_lock,
                   gh_issued, fetchVars, aiVars>>

\* the statuses the API answers with
Statuses == {200, 201, 202, 204, 206, 301, 304, 401, 403, 404, 429, 500, 503}

\* the bodies the API answers with: the text and what response.json() makes of it
Bodies ==
    { [text |-> <<"{\"name\": \"hello\", ...}">>, json |-> RepoInfo],
      [text |-> <<"{\"message\": \"Not Found\"}">>,
       json |-> [message |-> <<"Not Found">>]],
      [text |-> <<"{}">>, json |-> [x \in {} |-> x]] }

\* the URLs of the observed call
RequestedUrls ==
    { RepoApiUrl(<<"owner">>, <<"repo">>),
      TreeApiUrl(RepoInfo.owner.login, RepoInfo.name, RepoInfo.default_branch),
      FileApiUrl(RepoInfo.owner.login, RepoInfo.name, <<"a", ".", "txt">>) }

NewExchange(url, status, body) ==
    [pc |-> "start", url |-> url,
     response |-> [status |-> status, text |-> body.text, json |-> body.json],
     result |-> <<>>]

InitResponse ==
    /\ InitModules
    /\ endpoint = NoRequest
    /\ cache_keys = NoKeys
    /\ upstream = [tree |-> <<>>]
    /\ fr = [pc |-> "unused"]
    /\ exchange \in {NewExchange(url, status, body) :
                         url \in RequestedUrls, status \in Statuses, body \in Bodies}

NextResponse ==
    \/ RequestCall
    \/ RequestReturns

SpecResponse == InitResponse /\ [][NextResponse]_vars

----------------------------------------------------------------------------
(* main.py: request_key_builder, the key builder of @cache on POST /review *)

\* sep.join(parts)
RECURSIVE join(_, _)
join(sep, parts) ==
    IF parts = <<>> THEN <<>>
    ELSE IF Len(parts) = 1 THEN parts[1]
    ELSE parts[1] \o sep \o join(sep, Tail(parts))

\* the characters of the query strings, in the order of their code points
QueryChars == <<"1", "2", "a", "b">>
CodePoint(c) == CHOOSE k \in 1..Len(QueryChars) : QueryChars[k] = c

\* s < t for two strings
RECURSIVE StrLess(_, _)
StrLess(s, t) ==
    IF t = <<>> THEN FALSE
    ELSE IF s = <<>> THEN TRUE
    ELSE IF s[1] = t[1] THEN StrLess(Tail(s), Tail(t))
    ELSE CodePoint(s[1]) < CodePoint(t[1])

\* x < y for two (key, value) tuples
ItemLess(x, y) == StrLess(x[1], y[1]) \/ (x[1] = y[1] /\ StrLess(x[2], y[2]))

\* sorted(items)
RECURSIVE InsertSorted(_, _)
InsertSorted(x, items) ==
    IF items = <<>> THEN <<x>>
    ELSE IF ItemLess(x, items[1]) THEN <<x>> \o items
    ELSE <<items[1]>> \o InsertSorted(x, Tail(items))
RECURSIVE sorted(_)
sorted(items) ==
    IF items = <<>> THEN <<>>
    ELSE InsertSorted(items[Len(items)], sorted(SubSeq(items, 1, Len(items) - 1)))

\* repr of a list of (str, str) tuples
repr(items) ==
    <<"[">>
        \o join(<<",", " ">>,
                [i \in 1..Len(items) |->
                    <<"(", "'">> \o items[i][1] \o <<"'", ",", " ", "'">>
                        \o items[i][2] \o <<"'", ")">>])
        \o <<"]">>

\* request_key_builder(func, namespace, request, response, *args, **kwargs)
request_key_builder(namespace, request) ==
    join(<<":">>, <<namespace, lower(request.method), request.url.path,
                    repr(sorted(request.query_params))>>)

\* the namespaces the decorator passes: the cache prefix, "" with the in-memory
\* backend and "fastapi-cache" with Redis, then ":" and the empty namespace
Namespaces == {<<":">>, <<"fastapi-cache", ":">>}

\* the query strings of the requests
QueryParams ==
    { <<>>,
      << <<<<"a">>, <<"1">>>>, <<<<"b">>, <<"2">>>> >>,
      << <<<<"b">>, <<"2">>>>, <<<<"a">>, <<"1">>>> >> }

\* the bodies of the requests: each field takes two values
CachedBodies ==
    { [assignment_description |-> d, github_repo_url |-> u, candidate_level |-> l] :
        d \in {Assignment, <<"write a sorting program">>},
        u \in {GoodUrl, <<"https:", "/", "/", "github.com", "/", "owner", "/", "other">>},
        l \in {CandidateLevelMembers[1].value, CandidateLevelMembers[3].value} }

\* the requests the route POST /review receives
ReviewRequests ==
    { [method |-> <<"P", "O", "S", "T">>, url |-> [path |-> <<"/", "review">>],
       query_params |-> q, body |-> b] : q \in QueryParams, b \in CachedBodies }

\* a request arrives and the decorator asks the key builder for its key
BuildKey(request) ==
    /\ Len(cache_keys.built) < MaxKeyed
    /\ cache_keys' =
           [cache_keys EXCEPT
               !.built = Append(@, [request |-> request,
                                    key |-> request_key_builder(cache_keys.namespace,
                                                                request)])]
    /\ UNCHANGED <<now, ACCESS_TOKEN, endpoint, exchange, ghVars, fetchVars, aiVars>>

InitCache ==
    /\ InitModules
    /\ endpoint = NoRequest
    /\ exchange = NoExchange
    /\ upstream = [tree |-> <<>>]
    /\ fr = [pc |-> "unused"]
    /\ cache_keys \in {[namespace |-> n, built |-> <<>>] : n \in Namespaces}

NextCache == \E request \in ReviewRequests : BuildKey(request)

SpecCache == InitCache /\ [][NextCache]_vars

----------------------------------------------------------------------------
(* Claims *)

AdmittedIn(lo, hi) ==
    {j \in 1..Len(gh_issued) : gh_issued[j].at > lo /\ gh_issued[j].at <= hi}

\* C1: no trailing 60-second interval (T - 60, T] contains more than
\* PER_MINUTE_LIMIT admission timestamps of the GitHub limiter
C1_WindowBudget ==
    \A i \in 1..Len(gh_issued) :
        Cardinality(AdmittedIn(gh_issued[i].at - WINDOW, gh_issued[i].at))
            <= PER_MINUTE_LIMIT

\* C1 witness: a caller found the window full, slept, and was admitted after it
C1_Witness ==
    /\ Len(gh_issued) >= 3
    /\ gh_issued[2].slept /\ gh_issued[3].slept
    /\ gh_issued[3].at = gh_issued[2].at + WINDOW

----------------------------------------------------------------------------
(* Claims about POST /review (SpecEndpoint) *)

\* part occurs in text
Contains(text, part) ==
    \E i \in 0..(Len(text) - Len(part)) : SubSeq(text, i + 1, i + Len(part)) = part

\* the request has been answered
Responded == endpoint.pc = "responded"

\* a request for GoodUrl with the level Junior
GoodRequest ==
    /\ endpoint.pc # "unused"
    /\ endpoint.body.github_repo_url = GoodUrl
    /\ endpoint.body.candidate_level = <<"J", "u", "n", "i", "o", "r">>

\* C17: when the metadata lookup of the repository fails upstream, POST /review
\* answers with status 500 and a detail containing 'Internal Server Error:
\* Failed to retrieve data from <url>', and no review generation is invoked
C17_UpstreamErrorDetail ==
    (Responded /\ GoodRequest /\ upstream.meta_status # 200)
        => /\ endpoint.response.status = 500
           /\ Contains(endpoint.response.detail,
                       <<"Internal Server Error: Failed to retrieve data from ">>
                           \o GoodUrl)
           /\ \A c \in Reviews : rv[c].pc = "idle"

\* C18: a POST /review whose URL is on github.com with one path segment is
\* answered with status 400 and a detail containing "Invalid GitHub repository
\* URL format. It should be 'https://github.com/owner/repo'", and no GitHub or
\* generation request is issued
C18_OneSegmentIs400 ==
    (Responded /\ endpoint.body.github_repo_url = BadUrl)
        => /\ endpoint.response.status = 400
           /\ Contains(endpoint.response.detail,
                       <<"Invalid GitHub repository URL format. It should be 'https://github.com/owner/repo'">>)
           /\ gh_issued = <<>>
           /\ \A c \in Reviews : rv[c].pc = "idle"

\* C19: on the success path the handler obtains the completed result of
\* fetch_repo, passes its merged code to get_code_review, and responds 200 with
\* the fetcher's file paths and the three review fields
C19_SuccessIs200 ==
    (Responded /\ GoodRequest /\ upstream.meta_status = 200)
        => /\ endpoint.response.status = 200
           /\ fr.pc = "returned"
           /\ endpoint.response.body.found_files = fr.repository.file_paths
           /\ DOMAIN endpoint.response.body
                  = {"found_files", "downsides_comments", "rating", "conclusion"}

\* the members whose value equals the string when letter case is ignored
SameIgnoringCase(value) ==
    {i \in 1..Len(CandidateLevelMembers) :
         value \in CaseVariants(CandidateLevelMembers[i].value)}

\* a request whose URL passes the validation has been validated
LevelDecided ==
    /\ endpoint.pc \in {"handler", "responded"}
    /\ endpoint.body.github_repo_url = GoodUrl

\* C20: CandidateLevel parsing is case-insensitive and closed: a string equal,
\* ignoring letter case, to 'Junior', 'Middle' or 'Senior' resolves to that
\* member; every other string fails validation and resolves to no member
C20_CaseInsensitiveClosed ==
    LevelDecided =>
        LET same == SameIgnoringCase(endpoint.body.candidate_level)
        IN  IF same # {}
            THEN /\ endpoint.params # <<>>
                 /\ \A i \in same :
                        endpoint.params.candidate_level = CandidateLevelMembers[i].name
            ELSE /\ endpoint.params = <<>>
                 /\ endpoint.response.status = 422

\* C20 witness: 'sENIOR' has been resolved to the member Senior
C20_Witness ==
    /\ LevelDecided
    /\ endpoint.body.candidate_level = <<"s", "E", "N", "I", "O", "R">>
    /\ endpoint.params # <<>>
    /\ endpoint.params.candidate_level = "Senior"

----------------------------------------------------------------------------
(* Claims about the two limiters side by side (SpecBoth) *)

\* the admitted generation calls and the k-th of them in order of admission
CallEvents == {rv[ci[1]].history[ci[2]] : ci \in AdmittedCalls(rv)}
InGithubLimiter(t) == task[t].pc \in {"lockwait", "sleeping"}
InReviewLimiter(c) == rv[c].pc = "sleeping"

\* C13: a call that waits in a limiter, for the lock or for the end of its
\* sleep, is eventually admitted and its request issued
C13_EventuallyAdmitted ==
    /\ \A t \in Tasks : InGithubLimiter(t) ~> (task[t].pc = "http")
    /\ \A c \in Reviews : InReviewLimiter(c) ~> (rv[c].pc = "calling")

\* C13 witness: a GitHub call that had waited for the lock and slept has been
\* admitted, and so has a generation call that slept
C13_Witness ==
    /\ \E i \in 1..Len(gh_issued) : gh_issued[i].slept
    /\ \E e \in CallEvents : e.slept

\* a call enters make_github_request
GithubEnters(t) == task[t].pc = "idle" /\ task'[t].pc # "idle"
\* each limiter has room, by its own deque and lock alone
GithubHasRoom ==
    LockFree(rate_limit_lock) /\ Len(Evict(gh_REQUEST_TIMES, now)) < PER_MINUTE_LIMIT
ReviewHasRoom == Len(Evict(ai_REQUEST_TIMES, now)) < RATE_LIMIT

\* C14: a step that changes the GitHub deque or lock leaves the review deque
\* alone and the other way round; whether an entering call is admitted at
\* once or has to wait is decided by its own limiter's deque and lock alone
C14_Independent ==
    [][ /\ (gh_REQUEST_TIMES' # gh_REQUEST_TIMES \/ rate_limit_lock' # rate_limit_lock)
            => ai_REQUEST_TIMES' = ai_REQUEST_TIMES
        /\ ai_REQUEST_TIMES' # ai_REQUEST_TIMES
            => (gh_REQUEST_TIMES' = gh_REQUEST_TIMES /\ rate_limit_lock' = rate_limit_lock)
        /\ \A t \in Tasks :
               GithubEnters(t) => (task'[t].pc = "http" <=> GithubHasRoom)
        /\ \A c \in Reviews :
               (rv[c].pc = "idle" /\ rv'[c].pc # "idle")
                   => (rv'[c].pc = "calling" <=> ReviewHasRoom)
      ]_vars

\* C14 witness: a generation call has just been admitted without suspension
\* while the GitHub budget is used up and a sleeping caller holds the lock
C14_Witness ==
    /\ rate_limit_lock.locked
    /\ \E t \in Tasks : task[t].pc = "sleeping" /\ task[t].wake > now
    /\ Len(Evict(gh_REQUEST_TIMES, now)) >= PER_MINUTE_LIMIT
    /\ \E c \in Reviews :
           /\ rv[c].pc = "calling"
           /\ LET e == rv[c].history[Len(rv[c].history)]
              IN  e.at = now /\ e.reached = now /\ ~e.slept

----------------------------------------------------------------------------
(* Claims about fetch_repo (Spec) *)

Returned == fr.pc = "returned"

\* the paths of the listing, in the order the API returned them
ListedPaths == [i \in 1..Len(upstream.tree) |-> upstream.tree[i].path]
IsBlob(path) == \E i \in 1..Len(upstream.tree) :
                    upstream.tree[i].path = path /\ upstream.tree[i].type = "blob"
IsCandidate(path) == IsBlob(path) /\ is_text_file(path)
FetchedOk(path) == fr.outcome[path] = "ok"
FetchFailed(path) == fr.outcome[path] \notin {None, "ok"}

\* the block of a file in the merged text: the delimiter line, then the content
ExpectedBlock(path) ==
    <<"\n", "--- ">> \o path \o <<" ---", "\n">> \o ContentOf(path) \o <<"\n">>
ExpectedBlocks(paths) == Concat([i \in 1..Len(paths) |-> ExpectedBlock(paths[i])])

\* the sequences that hold each element of the set S exactly once
Orderings(S) ==
    {q \in [1..Cardinality(S) -> S] : \A i, j \in 1..Cardinality(S) : q[i] = q[j] => i = j}

ContentRequests(path) ==
    {i \in 1..Len(gh_issued) :
        gh_issued[i].url = FileApiUrl(RepoInfo.owner.login, RepoInfo.name, path)}

\* C3: the blocks of the merged text are in tree-listing order, restricted to
\* the text files whose fetch succeeded
C3_TreeOrder ==
    Returned =>
        fr.repository.merged_code = ExpectedBlocks(SelectSeq(ListedPaths, FetchedOk))

\* C4: a failing fetch or decode of some files never makes fetch_repo raise;
\* when it returns, every candidate's fetch has ended and files holds exactly
\* the files that succeeded, with their text
C4_FailureIsolation ==
    /\ fr.pc = "raised" => fr.stage \in {"url", "meta", "tree"}
    /\ Returned =>
        /\ \A path \in AllPaths : IsCandidate(path) => fr.outcome[path] # None
        /\ {fr.files[i].key : i \in 1..Len(fr.files)} = {path \in AllPaths : FetchedOk(path)}
        /\ \A i \in 1..Len(fr.files) : fr.files[i].value = ContentOf(fr.files[i].key)

\* C4 witness: fetch_repo returned although one file failed and another succeeded
C4_Witness ==
    /\ Returned
    /\ \E path \in AllPaths : FetchFailed(path)
    /\ \E path \in AllPaths : FetchedOk(path)

\* C8: file_paths is the sequence of the blob paths in API order, whatever
\* the contents requests did
C8_FilePaths ==
    Returned => fr.repository.file_paths = SelectSeq(ListedPaths, IsBlob)

\* C8 witness: returned with a listing of a directory, a binary blob and a
\* text blob whose fetch failed
C8_Witness ==
    /\ Returned
    /\ \E i \in 1..Len(upstream.tree) : upstream.tree[i].type # "blob"
    /\ \E path \in AllPaths : IsBlob(path) /\ ~is_text_file(path)
    /\ \E path \in AllPaths : FetchFailed(path)

\* C9: no path gets more than one contents request, only text-classified
\* blobs get one, and when fetch_repo returns each of them got exactly one
C9_ContentRequests ==
    \A path \in AllPaths :
        /\ Cardinality(ContentRequests(path)) <= (IF IsCandidate(path) THEN 1 ELSE 0)
        /\ (Returned /\ IsCandidate(path)) => Cardinality(ContentRequests(path)) = 1

\* C9 witness: returned after fetching two text files next to a binary blob
C9_Witness ==
    /\ Returned
    /\ Cardinality({path \in AllPaths : IsCandidate(path)}) = 2
    /\ \E path \in AllPaths : IsBlob(path) /\ ~is_text_file(path)
    /\ Len(gh_issued) = 4

\* C10: the merged text is made of exactly one block per successfully fetched
\* file, the delimiter line '--- <path> ---' followed by the decoded content,
\* and of nothing else
C10_MergedBlocks ==
    Returned =>
        \E q \in Orderings({path \in AllPaths : FetchedOk(path)}) :
            fr.repository.merged_code = ExpectedBlocks(q)

\* C10 witness: a merged text of two blocks
C10_Witness ==
    /\ Returned
    /\ Cardinality({path \in AllPaths : FetchedOk(path)}) = 2

\* the requests fetch_repo has issued, as URLs in order of admission
IssuedUrls == [i \in 1..Len(gh_issued) |-> gh_issued[i].url]
MetaUrl == RepoApiUrl(<<"owner">>, <<"repo">>)
TreeUrl == TreeApiUrl(RepoInfo.owner.login, RepoInfo.name, RepoInfo.default_branch)
FailedAt(stage) == fr.pc = "raised" /\ fr.stage = stage

\* C12: when the metadata request fails it is the only request ever issued,
\* when the tree request fails the two requests are the only ones; no request
\* is issued twice, and a fetch_repo that failed returns no Repository and
\* has no request pending
C12_NoRetryAbort ==
    /\ \A i, j \in 1..Len(gh_issued) : gh_issued[i].url = gh_issued[j].url => i = j
    /\ Len(gh_issued) >= 1 => gh_issued[1].url = MetaUrl
    /\ fr.pc = "meta" => Len(gh_issued) <= 1
    /\ FailedAt("meta") => IssuedUrls = <<MetaUrl>>
    /\ fr.pc = "tree" => Len(gh_issued) <= 2
    /\ FailedAt("tree") => IssuedUrls = <<MetaUrl, TreeUrl>>
    /\ fr.pc = "raised" =>
           /\ fr.repository = None
           /\ \A t \in Tasks : task[t].pc = "idle"

\* C12 witness: the tree request failed after the listing held text files
C12_Witness ==
    /\ FailedAt("tree")
    /\ \E path \in AllPaths : IsCandidate(path)
    /\ Len(gh_issued) = 2

----------------------------------------------------------------------------
(* Claims about two runs of fetch_repo (SpecRerun) *)

\* the files whose fetch succeeded, by the outcomes of a run
Succeeded(outcome) == {path \in AllPaths : outcome[path] = "ok"}
Failed(outcome) == {path \in AllPaths : outcome[path] \notin {None, "ok"}}

\* both runs are over, and the same files failed in both
SameFailures ==
    /\ Returned
    /\ fr.first # <<>>
    /\ Succeeded(fr.outcome) = Succeeded(fr.first[1].outcome)
    /\ Failed(fr.outcome) = Failed(fr.first[1].outcome)

\* C11: two runs of fetch_repo against the same upstream, with the same files
\* failing, return the same merged text, whatever order the file fetches of
\* each run complete in
C11_SameMergedText ==
    SameFailures => fr.repository.merged_code = fr.first[1].merged_code

----------------------------------------------------------------------------
(* Claims about get_repo_info (SpecUrl) *)

\* the path segments after scheme://host that are not empty
NonEmptySegments(repo_url) == {i \in 5..Len(repo_url) : repo_url[i] # "/"}

\* C7: a URL with fewer than two non-empty path segments after the host makes
\* get_repo_info raise ValueError, and no GitHub request is issued
C7_InvalidUrl ==
    (fr.pc # "start" /\ Cardinality(NonEmptySegments(fr.repo_url)) < 2) =>
        /\ fr.pc = "raised"
        /\ fr.error = "ValueError"
        /\ gh_issued = <<>>

----------------------------------------------------------------------------
(* Claims about the review-generation limiter and get_code_review (SpecReview) *)

\* C2: the trailing 60-second interval (now - 60, now] never holds more than
\* RATE_LIMIT admission timestamps of the review-generation limiter
C2_ReviewWindowBudget ==
    Cardinality({i \in 1..Len(ai_REQUEST_TIMES) : ai_REQUEST_TIMES[i] > now - WINDOW})
        <= RATE_LIMIT

Roles(messages) == [i \in 1..Len(messages) |-> messages[i].role]
Failure(e) == e.ev = "return" /\ e.result.raised # None
Success(e) == e.ev = "return" /\ e.result.raised = None

\* C5: a get_code_review that returned issued exactly 3 generation calls, each
\* after the one before had returned: [system, user=code], then with call 1's
\* output as assistant message, then with call 1's and call 2's outputs
C5_ThreeChainedCalls ==
    \A c \in Reviews :
        LET h == rv[c].history
        IN  /\ \A i \in 1..Len(h) :
                   h[i].ev = (IF i % 2 = 1 THEN "call" ELSE "return")
            /\ rv[c].pc = "returned" =>
                /\ Len(h) = 6
                /\ \A k \in 1..3 : h[2 * k - 1].pass = k /\ Success(h[2 * k])
                /\ Roles(h[1].messages) = <<"system", "user">>
                /\ Roles(h[3].messages) = <<"system", "user", "assistant">>
                /\ Roles(h[5].messages) = <<"system", "user", "assistant", "assistant">>
                /\ \A k \in 1..3 : h[2 * k - 1].messages[2].content = CodeOf(c)
                /\ h[3].messages[3].content = h[2].result.value
                /\ h[5].messages[3].content = h[2].result.value
                /\ h[5].messages[4].content = h[4].result.value

\* C5 witness: an invocation returned after one of its calls had to sleep
C5_Witness ==
    \E c \in Reviews :
        /\ rv[c].pc = "returned"
        /\ \E i \in 1..Len(rv[c].history) : rv[c].history[i].slept

\* C6: after a failed pass no further pass is issued, get_code_review fails
\* with that error and returns no Review; a Review is returned only after
\* three successful passes, with its three fields set
C6_FailureAborts ==
    \A c \in Reviews :
        LET h == rv[c].history
        IN  /\ \A i \in 1..Len(h) :
                   Failure(h[i]) =>
                       /\ i = Len(h)
                       /\ rv[c].pc = "raised"
                       /\ rv[c].error = h[i].result.raised
            /\ rv[c].pc = "raised" => rv[c].review = <<>>
            /\ rv[c].review # <<>> =>
                   /\ rv[c].pc = "returned"
                   /\ Cardinality({i \in 1..Len(h) : Success(h[i])}) = 3
                   /\ rv[c].review[1].downsides_comments # <<>>
                   /\ rv[c].review[1].rating # <<>>
                   /\ rv[c].review[1].conclusion # <<>>

\* the k-th admitted generation call
CallNo(k) == CHOOSE e \in CallEvents : e.seq = k
\* the call was admitted later than it reached the limiter
Suspended(e) == e.at > e.reached
\* each of the calls 2..k reached the limiter at the time the call before it
\* was admitted
BackToBack(k) == \A j \in 2..k : CallNo(j).reached = CallNo(j - 1).at

\* a call that found RATE_LIMIT timestamps younger than 60 s was suspended
PositiveSuspension == \A e \in CallEvents : e.full => Suspended(e)

\* C15: a call that reaches the check on a full window is admitted only after
\* a strictly positive suspension; of 5 back-to-back calls on an empty window
\* with budget 2, the first two are admitted without suspension and the
\* third, fourth and fifth are each suspended
C15_SuspendedBeyondBudget ==
    /\ PositiveSuspension
    /\ \A k \in 1..Cardinality(CallEvents) :
           (k <= 5 /\ BackToBack(k)) => (Suspended(CallNo(k)) <=> k > RATE_LIMIT)

\* C16: the Review a get_code_review returns holds the text call 1 returned as
\* downsides_comments, the text call 2 returned as rating and the text call 3
\* returned as conclusion
C16_ReviewFields ==
    \A c \in Reviews :
        rv[c].review # <<>> =>
            LET h == rv[c].history
            IN  /\ Len(h) = 6
                /\ \A k \in 1..3 : h[2 * k - 1].pass = k /\ Success(h[2 * k])
                /\ rv[c].review[1] =
                       [downsides_comments |-> h[2].result.value,
                        rating |-> h[4].result.value,
                        conclusion |-> h[6].result.value]

\* C16 witness: a returned Review whose three texts differ from each other
C16_Witness ==
    \E c \in Reviews :
        /\ rv[c].pc = "returned"
        /\ rv[c].review # <<>>
        /\ rv[c].review[1].downsides_comments # rv[c].review[1].rating
        /\ rv[c].review[1].rating # rv[c].review[1].conclusion
        /\ rv[c].review[1].downsides_comments # rv[c].review[1].conclusion

\* C6 witness: an invocation failed at its second pass
C6_Witness ==
    \E c \in Reviews :
        /\ rv[c].pc = "raised"
        /\ Len(rv[c].history) = 4

----------------------------------------------------------------------------
(* Claims about the admission check of the two limiters *)

\* some caller of make_github_request is inside asyncio.sleep(sleep_time)
SomeSleeping == \E t \in Tasks : task[t].pc = "sleeping"

\* C21: while a caller of the GitHub limiter is suspended waiting for a slot,
\* the limiter's lock is free for another caller to enter the admission check
C21_LockFreeWhileSleeping ==
    SomeSleeping => LockFree(rate_limit_lock)

\* a step in which make_github_request appends a timestamp
GithubAppends == Len(gh_issued') > Len(gh_issued)

KeptOf(times, kept) ==
    {i \in 1..Len(times) : \E j \in 1..Len(kept) : kept[j] = times[i]}

\* C23: the eviction of an admission check removes the timestamps older than
\* now - 60 and no others: a timestamp of age 60 seconds or less is retained
C23_EvictsOnlyOlder ==
    [][gh_REQUEST_TIMES' # gh_REQUEST_TIMES =>
          /\ \A i \in 1..Len(gh_REQUEST_TIMES) :
                 gh_REQUEST_TIMES[i] >= now - WINDOW
                     => i \in KeptOf(gh_REQUEST_TIMES, gh_REQUEST_TIMES')
          /\ \A j \in 1..Len(gh_REQUEST_TIMES') :
                 gh_REQUEST_TIMES'[j] >= now - WINDOW]_vars

\* the step suspends task t of make_github_request for rate limiting
GithubSuspends(t) == task[t].pc # "sleeping" /\ task'[t].pc = "sleeping"
\* the step suspends invocation c of get_code_review for rate limiting
ReviewSuspends(c) == rv[c].pc # "sleeping" /\ rv'[c].pc = "sleeping"

\* C24: in both limiters the computed wait 60 - (now - oldest remaining
\* timestamp) of a caller about to sleep is never negative and, the clock
\* being non-decreasing, at most 60 seconds
C24_WaitInRange ==
    [][/\ \A t \in Tasks :
              GithubSuspends(t) =>
                  /\ task'[t].wake - now >= 0
                  /\ task'[t].wake - now <= WINDOW
                  /\ task'[t].wake - now = SleepTime(gh_REQUEST_TIMES', now)
       /\ \A c \in Reviews :
              ReviewSuspends(c) =>
                  /\ rv'[c].wake - now >= 0
                  /\ rv'[c].wake - now <= WINDOW
                  /\ rv'[c].wake - now = SleepTime(ai_REQUEST_TIMES', now)]_vars

\* C24 witness: a caller of each limiter sleeps, one of them for less than
\* 60 seconds because the oldest timestamp was not new when it arrived
C24_Witness ==
    \E t \in Tasks, c \in Reviews :
        /\ task[t].pc = "sleeping" /\ rv[c].pc = "sleeping"
        /\ task[t].wake > now /\ rv[c].wake > now
        /\ task[t].wake # rv[c].wake

\* the timestamps are in non-decreasing order
Ascending(times) ==
    \A i, j \in 1..Len(times) : i <= j => times[i] <= times[j]

\* after is before without some of its front entries, with at most one entry,
\* the current time, appended at the tail
FrontRemovedTailAppended(before, after) ==
    \E k \in 0..Len(before) :
        LET rest == SubSeq(before, k + 1, Len(before))
        IN  after = rest \/ after = Append(rest, now)

GithubChecks(t) ==
    /\ task[t].pc \in {"idle", "lockwait"}
    /\ task'[t].pc \in {"sleeping", "http"}

\* one of the admissions after the first before ones is t's, at this instant
\* and without a sleep
AdmittedAtOnce(issued, before, t, current_time) ==
    \E i \in (before + 1)..Len(issued) :
        /\ issued[i].by = t
        /\ issued[i].at = current_time
        /\ ~issued[i].slept

\* C26: a caller that reaches the admission check when fewer than budget
\* timestamps lie within the last 60 seconds is admitted in that check without
\* a rate-limit sleep, so the first budget calls on an empty window are all
\* admitted with no suspension
C26_BurstAdmittedAtOnce ==
    /\ [][\A t \in Tasks :
              (/\ GithubChecks(t)
               /\ Cardinality(Young(gh_REQUEST_TIMES, now)) < PER_MINUTE_LIMIT)
                  => /\ task'[t].pc = "http"
                     /\ AdmittedAtOnce(gh_issued', Len(gh_issued), t, now)]_vars
    /\ [](/\ \A e \in CallEvents : ~e.full => (~e.slept /\ e.at = e.reached)
          /\ \A e \in CallEvents : e.seq <= RATE_LIMIT => ~e.slept
          /\ \A i \in 1..Len(gh_issued) : i <= PER_MINUTE_LIMIT => ~gh_issued[i].slept)

\* C26 witness: a burst of three GitHub requests and a burst of two generation
\* calls, each admitted at one instant with no sleep
C26_Witness ==
    /\ Len(gh_issued) = 3
    /\ \A i \in 1..3 : ~gh_issued[i].slept /\ gh_issued[i].at = gh_issued[1].at
    /\ \E e1, e2 \in CallEvents :
           /\ e1.seq = 1 /\ e2.seq = 2
           /\ e1.at = e2.at /\ e2.reached = e2.at
           /\ ~e1.slept /\ ~e2.slept

----------------------------------------------------------------------------
(* Claims about the stages of fetch_repo and the requests they issue *)

\* the URL is https://github.com/<owner>/<repo>[/...] with names for owner
\* and repo
OwnerRepoUrl(repo_url) ==
    /\ Len(repo_url) >= 8
    /\ SubSeq(repo_url, 1, 5) = GithubPrefix
    /\ repo_url[6] # "/" /\ repo_url[7] = "/" /\ repo_url[8] # "/"

\* C27: for a URL <host>/<owner>/<repo>[/...] the metadata lookup targets the
\* repository named by the first two path segments after the host, also when
\* further segments follow
C27_FirstTwoSegments ==
    (fr.pc # "start" /\ OwnerRepoUrl(fr.repo_url)) =>
        /\ fr.pc = "meta"
        /\ Len(gh_issued) = 1
        /\ gh_issued[1].url = RepoApiUrl(<<fr.repo_url[6]>>, <<fr.repo_url[8]>>)

\* fetch_repo is past the stage: the request of the stage has succeeded
PastMeta == fr.pc \in {"tree", "gather", "returned"} \/ FailedAt("tree")
PastTree == fr.pc \in {"gather", "returned"}

\* C28: within one fetch_repo the tree request is issued only after the
\* metadata request has succeeded, with the owner, name and default branch of
\* the metadata response; every file-content request is issued only after the
\* tree request has succeeded; the merge runs only after every file-content
\* task has finished, successfully or not
C28_StagesInOrder ==
    /\ Len(gh_issued) >= 1 => gh_issued[1].url = MetaUrl
    /\ Len(gh_issued) >= 2 =>
           /\ PastMeta
           /\ gh_issued[2].url = TreeUrl
           /\ gh_issued[2].url = TreeApiUrl(fr.owner, fr.repo_name, fr.default_branch)
    /\ Len(gh_issued) >= 3 => PastTree
    /\ \A i \in 3..Len(gh_issued) :
           \E k \in FileTasks :
               /\ gh_issued[i].by = k
               /\ gh_issued[i].url = FileApiUrl(fr.owner, fr.repo_name, fr.textfile_paths[k])
    /\ \A t \in Tasks : (t # Main /\ task[t].pc # "idle") => (PastTree /\ t \in FileTasks)
    /\ ~Returned => fr.repository = None
    /\ Returned =>
           /\ \A t \in FileTasks : task[t].pc = "done"
           /\ \A t \in FileTasks : fr.outcome[fr.textfile_paths[t]] # None

\* C28 witness: fetch_repo returned after two file-content tasks, one of which
\* failed, and the first to be issued was not the first to finish
C28_Witness ==
    /\ Returned
    /\ Len(gh_issued) = 4
    /\ \E path \in AllPaths : FetchFailed(path)
    /\ \E path \in AllPaths : FetchedOk(path)

\* the observed call of make_github_request is over
Exchanged == exchange.pc = "done"

\* the call failed with an error that carries the status code and the body text
FailedWithStatusAndText ==
    /\ exchange.result.raised = "Exception"
    /\ Contains(exchange.result.value, <<ToString(exchange.response.status)>>)
    /\ Contains(exchange.result.value, exchange.response.text)

\* the call returned the parsed JSON body
ReturnedJson == exchange.result = Ok(exchange.response.json)

\* C29 as stated: make_github_request returns the parsed JSON body exactly
\* when the upstream answers with a 2xx status, and otherwise fails with an
\* error that carries the status code and the response body text
C29_ReturnsOn2xx ==
    Exchanged =>
        IF exchange.response.status \in 200..299
        THEN ReturnedJson
        ELSE FailedWithStatusAndText

\* C29 as amended: make_github_request returns the parsed JSON body exactly
\* when the upstream answers with status 200, and for every other status,
\* other 2xx statuses included, fails with an error that carries the status
\* code and the response body text
C29_ReturnsOn200 ==
    Exchanged =>
        IF exchange.response.status = 200
        THEN ReturnedJson
        ELSE FailedWithStatusAndText

\* C29 witness: a response with status 204 made the call fail with the status
\* and the text in its error
C29_Witness ==
    /\ Exchanged
    /\ exchange.response.status = 204
    /\ FailedWithStatusAndText

----------------------------------------------------------------------------
(* Claims about the passes of get_code_review and their admissions *)

\* the generation calls invocation c has issued
CallsOf(c) == {i \in 1..Len(rv[c].history) : rv[c].history[i].ev = "call"}

\* after is a tail of before: nothing was appended
IsTailOf(after, before) ==
    \E k \in 0..Len(before) : after = SubSeq(before, k + 1, Len(before))

\* C30: each generation pass is preceded by exactly one admission on the
\* review-generation limiter, whose timestamp is recorded before the external
\* call is issued; a get_code_review that returned has recorded exactly 3
\* timestamps, and one that failed at pass k exactly k
C30_OneAdmissionPerPass ==
    /\ [](\A c \in Reviews :
            /\ rv[c].pc = "calling" =>
                   /\ Cardinality(CallsOf(c)) = rv[c].pass
                   /\ ai_REQUEST_TIMES # <<>>
                   /\ ai_REQUEST_TIMES[Len(ai_REQUEST_TIMES)]
                          = rv[c].history[Len(rv[c].history)].at
            /\ rv[c].pc = "sleeping" => Cardinality(CallsOf(c)) = rv[c].pass - 1
            /\ rv[c].pc = "returned" => Cardinality(CallsOf(c)) = 3
            /\ rv[c].pc = "raised" => Cardinality(CallsOf(c)) = rv[c].pass)
    /\ [][/\ IsTailOf(ai_REQUEST_TIMES', ai_REQUEST_TIMES)
              <=> Cardinality(AdmittedCalls(rv')) = Cardinality(AdmittedCalls(rv))
          /\ ~IsTailOf(ai_REQUEST_TIMES', ai_REQUEST_TIMES)
              => /\ Cardinality(AdmittedCalls(rv')) = Cardinality(AdmittedCalls(rv)) + 1
                 /\ \E k \in 0..Len(ai_REQUEST_TIMES) :
                        ai_REQUEST_TIMES'
                            = Append(SubSeq(ai_REQUEST_TIMES, k + 1, Len(ai_REQUEST_TIMES)),
                                     now)]_vars

\* C30 witness: one invocation returned and another failed at its second pass
C30_Witness ==
    \E c, d \in Reviews :
        /\ rv[c].pc = "returned"
        /\ rv[d].pc = "raised" /\ rv[d].pass = 2
        /\ Cardinality(CallsOf(d)) = 2

----------------------------------------------------------------------------
(* Claims about the event loop, the request count and the budget *)

\* an outbound network call is in flight: a GitHub GET or a generation call
GetInFlight == \E t \in Tasks : task[t].pc = "http"
GenerationInFlight == \E c \in Reviews : rv[c].pc = "calling"

\* every task that has something to do can take its step: a caller whose sleep
\* is over wakes, the first waiter of the free lock enters, the caller whose
\* response has arrived goes on
ReadyTasksCanStep ==
    /\ \A t \in Tasks :
           (task[t].pc = "sleeping" /\ now >= task[t].wake) => ENABLED Wake(t)
    /\ \A t \in Callers : task[t].pc = "http" => ENABLED Respond(t)
    /\ (~rate_limit_lock.locked /\ rate_limit_lock.waiters # <<>>) => ENABLED LockGrant
    /\ \A c \in Reviews :
           (rv[c].pc = "sleeping" /\ now >= rv[c].wake) => ENABLED AiWake(c)

\* C31: every outbound network call is a suspension point: while a generation
\* call or a GitHub GET is in flight, the other tasks on the event loop can
\* take steps; the call blocks only its own task
C31_CallBlocksOnlyItsTask ==
    (GetInFlight \/ GenerationInFlight) => ReadyTasksCanStep

\* the step records exactly k timestamps: REQUEST_TIMES loses some entries
\* older than the clock at its front and gains k copies of the clock at its tail
Recorded(k) ==
    \E j \in 0..Len(gh_REQUEST_TIMES) :
        /\ \A i \in 1..j : gh_REQUEST_TIMES[i] < now'
        /\ gh_REQUEST_TIMES' =
               SubSeq(gh_REQUEST_TIMES, j + 1, Len(gh_REQUEST_TIMES))
                   \o [i \in 1..k |-> now']

\* the step sends k GETs, each stamped with the clock
Sent(k) ==
    /\ Len(gh_issued') = Len(gh_issued) + k
    /\ SubSeq(gh_issued', 1, Len(gh_issued)) = gh_issued
    /\ \A i \in (Len(gh_issued) + 1)..Len(gh_issued') : gh_issued'[i].at = now'

NumCandidates == Cardinality({path \in AllPaths : IsCandidate(path)})

\* C32: every GitHub request is preceded by exactly one admission and every
\* admission is followed by exactly one request: a step records as many
\* timestamps as it sends GETs; so a fetch_repo that reaches the merge with K
\* text-classified files has sent, and recorded, exactly 2 + K, whether or not
\* file requests failed
C32_OneAdmissionPerRequest ==
    /\ [][\E k \in 0..(MaxFiles + 1) : Sent(k) /\ Recorded(k)]_vars
    /\ [](Len(gh_issued) <= 2 + NumCandidates)
    /\ [](Returned =>
            /\ Len(fr.textfile_paths) = NumCandidates
            /\ Len(gh_issued) = 2 + NumCandidates)

\* C32 witness: fetch_repo returned with two text files, one of which failed,
\* after some of its four timestamps had left the window
C32_Witness ==
    /\ Returned
    /\ NumCandidates = 2
    /\ \E path \in AllPaths : FetchFailed(path)
    /\ Len(gh_issued) = 4
    /\ Len(gh_REQUEST_TIMES) < 4

\* C33: the per-window budget is the hourly limit divided by 60 and truncated,
\* 83 with an access token and 1 without, and at least 1 in both, so the first
\* request into an empty window is admitted without waiting
C33_BudgetAtLeastOne ==
    /\ PER_MINUTE_LIMIT * 60 <= PER_HOUR_LIMIT
    /\ PER_HOUR_LIMIT < (PER_MINUTE_LIMIT + 1) * 60
    /\ PER_MINUTE_LIMIT = (IF ACCESS_TOKEN THEN 83 ELSE 1)
    /\ PER_MINUTE_LIMIT >= 1
    /\ gh_issued # <<>> => ~gh_issued[1].slept

\* C33 witness: without a token the budget of 1 is in effect: the first request
\* went out at once and the second a full window later
C33_Witness ==
    /\ ~ACCESS_TOKEN
    /\ Len(gh_issued) >= 2
    /\ ~gh_issued[1].slept
    /\ gh_issued[2].slept
    /\ gh_issued[2].at >= gh_issued[1].at + WINDOW

----------------------------------------------------------------------------
(* Claims about the cache key *)

KeyedPairs == {ij \in (DOMAIN cache_keys.built) \X (DOMAIN cache_keys.built) : ij[1] < ij[2]}

\* C34: the cache key built for POST /review distinguishes requests with
\* different bodies: two requests that differ in github_repo_url,
\* assignment_description or candidate_level never get the same key
C34_KeyDistinguishesBodies ==
    \A ij \in KeyedPairs :
        LET first == cache_keys.built[ij[1]]
            second == cache_keys.built[ij[2]]
        IN  first.request.body # second.request.body => first.key # second.key

====
